---- MODULE Spec2Model ----
(***************************************************************************)
(* Model of the timelapse core of time-capsule: src/timelapse.py           *)
(* (create_timelapse_video, create_mp4_timelapse) and the web handler      *)
(* create_timelapse of src/app.py that calls it.                           *)
(*                                                                         *)
(* A file name is kept as the list of its underscore-delimited fields, and *)
(* a field as the list of its symbols, so that stem.split('_')[-1] and     *)
(* int(...) are computed rather than assumed.  cv2 is modelled by its      *)
(* documented behaviour: imread returns None for a file it cannot decode,  *)
(* VideoWriter(...) returns an unopened writer when the container cannot   *)
(* be opened, write() on an unopened writer does nothing.                  *)
(***************************************************************************)
EXTENDS Integers, Sequences, FiniteSets, TLC

\* ---------------------------------------------------------------- bounds
MaxFiles == 3
MaxFps == 4

\* ------------------------------------------------------- file names, int()
Digit == {"0", "1", "2", "3", "4", "5", "6", "7", "8", "9"}

DigitVal(c) ==
    CASE c = "0" -> 0 [] c = "1" -> 1 [] c = "2" -> 2 [] c = "3" -> 3
      [] c = "4" -> 4 [] c = "5" -> 5 [] c = "6" -> 6 [] c = "7" -> 7
      [] c = "8" -> 8 [] c = "9" -> 9

Front(s) == SubSeq(s, 1, Len(s) - 1)

Last(s) == s[Len(s)]

\* the digits of an integer literal, its sign removed
Unsigned(s) == IF s # <<>> /\ s[1] \in {"+", "-"} THEN Tail(s) ELSE s

\* int(s) does not raise ValueError
IsIntLiteral(s) ==
    /\ Unsigned(s) # <<>>
    /\ \A k \in 1..Len(Unsigned(s)) : Unsigned(s)[k] \in Digit

RECURSIVE NatValue(_)
NatValue(s) == IF s = <<>> THEN 0 ELSE 10 * NatValue(Front(s)) + DigitVal(Last(s))

\* int(s) for a literal s
IntValue(s) ==
    IF s # <<>> /\ s[1] = "-" THEN 0 - NatValue(Unsigned(s)) ELSE NatValue(Unsigned(s))

\* a wrong fallback: an unparsable year is given a late key instead of 0
extract_year_late(filepath) ==
    IF IsIntLiteral(Last(filepath.stem)) THEN IntValue(Last(filepath.stem)) ELSE 9999

\* extract_year: int(filepath.stem.split('_')[-1]), 0 on ValueError
extract_year(filepath) ==
    IF IsIntLiteral(Last(filepath.stem)) THEN IntValue(Last(filepath.stem)) ELSE 0

\* img_file.name.startswith('timelapse_')
StartsWithTimelapse(f) == Len(f.stem) >= 2 /\ f.stem[1] = <<"timelapse">>

\* the files a batch directory may hold: stem fields, extension, whether
\* cv2.imread decodes the file, and its pixel dimensions (abstracted)
Catalog ==
    { [stem |-> <<(<<"a">>), (<<"1", "8", "5", "0">>)>>, ext |-> "png", readable |-> TRUE, shape |-> 1],
      [stem |-> <<(<<"b">>), (<<"1", "9", "0", "0">>)>>, ext |-> "png", readable |-> TRUE, shape |-> 2],
      [stem |-> <<(<<"d">>), (<<"oops">>)>>, ext |-> "png", readable |-> TRUE, shape |-> 1],
      [stem |-> <<(<<"e">>), (<<"-", "5", "0">>)>>, ext |-> "png", readable |-> FALSE, shape |-> 2],
      [stem |-> <<(<<"g">>), (<<"0">>)>>, ext |-> "png", readable |-> FALSE, shape |-> 1],
      [stem |-> <<(<<"timelapse">>), (<<"old">>)>>, ext |-> "png", readable |-> TRUE, shape |-> 1],
      [stem |-> <<(<<"notes">>), (<<"2", "0", "2", "0">>)>>, ext |-> "txt", readable |-> FALSE, shape |-> 0] }

\* directory listings: up to MaxFiles distinct files in any discovery order
Listings ==
    { s \in UNION { [1..n -> Catalog] : n \in 0..MaxFiles } :
        \A p, q \in DOMAIN s : p # q => s[p] # s[q] }

\* ------------------------------------------------------------------ sort
\* list.sort(key=extract_year) is stable: an element is placed after every
\* earlier element whose key is not greater
RECURSIVE Insert(_, _)
Insert(x, s) ==
    IF s = <<>> THEN <<x>>
    ELSE IF extract_year(Last(s)) <= extract_year(x) THEN Append(s, x)
    ELSE Append(Insert(x, Front(s)), Last(s))

\* a sort that is not stable: equal keys are swapped
RECURSIVE InsertUnstable(_, _)
InsertUnstable(x, s) ==
    IF s = <<>> THEN <<x>>
    ELSE IF extract_year(Last(s)) < extract_year(x) THEN Append(s, x)
    ELSE Append(InsertUnstable(x, Front(s)), Last(s))

RECURSIVE SortUnstable(_)
SortUnstable(s) == IF s = <<>> THEN <<>> ELSE InsertUnstable(Last(s), SortUnstable(Front(s)))

RECURSIVE SortByYear(_)
SortByYear(s) == IF s = <<>> THEN <<>> ELSE Insert(Last(s), SortByYear(Front(s)))

RECURSIVE SelectPng(_)
SelectPng(s) ==
    IF s = <<>> THEN <<>>
    ELSE IF Last(s).ext = "png" THEN Append(SelectPng(Front(s)), Last(s))
    ELSE SelectPng(Front(s))

RECURSIVE Repeat(_, _)
Repeat(x, n) == IF n <= 0 THEN <<>> ELSE Append(Repeat(x, n - 1), x)

Max(a, b) == IF a >= b THEN a ELSE b

\* a constant hold of two writes whatever the frame rate
frame_duration_const(f) == 2

\* frame_duration = 2 if fps == 1 else max(1, fps // 2)
frame_duration(f) == IF f = 1 THEN 2 ELSE Max(1, f \div 2)

\* ----------------------------------------------------------------- state
VARIABLES
    dirExists,      \* Path('output') / batch_id exists
    files,          \* the source files of the batch directory, in discovery order
    artifact,       \* the file at output_path: "absent", "open" or "finalized"
    pc,             \* position of the one synchronous request in flight
    entry,          \* which function the caller invoked
    output_format,  \* the format argument
    image_files,    \* local image_files
    years,          \* local years
    fps,            \* argument fps of create_mp4_timelapse
    ref,            \* (height, width) of the first image, 0 before it is read
    writer,         \* the cv2.VideoWriter object
    i,              \* loop index of the frame loop (1-based)
    writes,         \* the video_writer.write calls made by this invocation
    pending,        \* exception in flight inside create_mp4_timelapse
    error,          \* exception that reached the caller of the timelapse API
    result,         \* value returned to the caller of the timelapse API
    http            \* status code of the web response, 0 when there is none

vars == <<dirExists, files, artifact, pc, entry, output_format, image_files, years,
          fps, ref, writer, i, writes, pending, error, result, http>>

fsVars == <<dirExists, files>>

NoWriter == [created |-> FALSE, opened |-> FALSE, released |-> 0]

\* output_path = batch_dir / f"timelapse_{batch_id}.mp4"
OutputFile == [stem |-> <<(<<"timelapse">>), (<<"batch">>)>>, ext |-> "mp4", readable |-> FALSE, shape |-> 0]

\* the entries of the batch directory
DirEntries == IF artifact = "absent" THEN files ELSE Append(files, OutputFile)

\* list(batch_dir.glob('*.png'))
GlobPng == SelectPng(DirEntries)

YearsOf(s) == [k \in 1..Len(s) |-> extract_year(s[k])]

Init ==
    /\ dirExists \in BOOLEAN
    /\ files \in Listings
    /\ (~dirExists => files = <<>>)
    /\ artifact = "absent"
    /\ pc = "idle"
    /\ entry = "none"
    /\ output_format = "none"
    /\ image_files = <<>>
    /\ years = <<>>
    /\ fps = 1
    /\ ref = 0
    /\ writer = NoWriter
    /\ i = 1
    /\ writes = <<>>
    /\ pending = "none"
    /\ error = "none"
    /\ result = "none"
    /\ http = 0

\* an exception leaves the timelapse API: the web handler catches it, a
\* direct caller receives it
Caller == IF entry = "web" THEN "respond" ELSE "done"

\* ------------------------------------------------------------ entry points
\* app.create_timelapse up to the call of create_timelapse_video
WebCreateTimelapse ==
    /\ pc = "idle"
    /\ \E fmt \in {"mp4", "gif"} :
        /\ output_format' = fmt
        /\ entry' = "web"
        /\ IF fmt # "mp4"
           THEN /\ http' = 400
                /\ pc' = "done"
           ELSE /\ http' = 0
                /\ pc' = "resolve"
    /\ UNCHANGED <<fsVars, artifact, image_files, years, fps, ref, writer, i, writes,
                   pending, error, result>>

\* create_timelapse_video called by another caller than the web handler
CallCreateTimelapseVideo ==
    /\ pc = "idle"
    /\ \E fmt \in {"mp4", "gif"} : output_format' = fmt
    /\ entry' = "video"
    /\ pc' = "resolve"
    /\ UNCHANGED <<fsVars, artifact, image_files, years, fps, ref, writer, i, writes,
                   pending, error, result, http>>

\* create_mp4_timelapse called directly with a list of files, their years
\* and a frame rate
CallCreateMp4Timelapse ==
    /\ pc = "idle"
    /\ \E f \in 1..MaxFps : fps' = f
    /\ entry' = "encoder"
    /\ output_format' = "mp4"
    /\ image_files' = GlobPng
    /\ years' = YearsOf(GlobPng)
    /\ pc' = "first"
    /\ UNCHANGED <<fsVars, artifact, ref, writer, i, writes, pending, error, result, http>>

\* ------------------------------------------------- create_timelapse_video
\* a resolver that lets an empty batch through to the encoder
ResolveNoEmptyCheck ==
    /\ pc = "resolve"
    /\ IF output_format # "mp4"
       THEN /\ error' = "ValueError"
            /\ pc' = Caller
            /\ UNCHANGED image_files
       ELSE IF ~dirExists
       THEN /\ error' = "FileNotFoundError"
            /\ pc' = Caller
            /\ UNCHANGED image_files
       ELSE /\ image_files' = GlobPng
            /\ pc' = "sort"
            /\ UNCHANGED error
    /\ UNCHANGED <<fsVars, artifact, entry, output_format, years, fps, ref, writer, i,
                   writes, pending, result, http>>

\* format check, batch directory check, glob and the empty check
Resolve ==
    /\ pc = "resolve"
    /\ IF output_format # "mp4"
       THEN /\ error' = "ValueError"
            /\ pc' = Caller
            /\ UNCHANGED image_files
       ELSE IF ~dirExists
       THEN /\ error' = "FileNotFoundError"
            /\ pc' = Caller
            /\ UNCHANGED image_files
       ELSE IF GlobPng = <<>>
       THEN /\ error' = "FileNotFoundError"
            /\ pc' = Caller
            /\ image_files' = GlobPng
       ELSE /\ image_files' = GlobPng
            /\ pc' = "sort"
            /\ UNCHANGED error
    /\ UNCHANGED <<fsVars, artifact, entry, output_format, years, fps, ref, writer, i,
                   writes, pending, result, http>>

\* image_files.sort(key=extract_year), years, and the call of the encoder
\* with the default fps
SortAndCall ==
    /\ pc = "sort"
    /\ image_files' = SortByYear(image_files)
    /\ years' = YearsOf(SortByYear(image_files))
    /\ fps' = 1
    /\ pc' = "first"
    /\ UNCHANGED <<fsVars, artifact, entry, output_format, ref, writer, i, writes,
                   pending, error, result, http>>

\* --------------------------------------------------- create_mp4_timelapse
\* a first read that does not check for None
ReadFirstUnchecked ==
    /\ pc = "first"
    /\ IF image_files = <<>>
       THEN /\ error' = "IndexError"
            /\ pc' = Caller
            /\ UNCHANGED ref
       ELSE /\ ref' = image_files[1].shape
            /\ pc' = "open"
            /\ UNCHANGED error
    /\ UNCHANGED <<fsVars, artifact, entry, output_format, image_files, years, fps,
                   writer, i, writes, pending, result, http>>

\* first_image = cv2.imread(image_files[0]); None raises ValueError
ReadFirst ==
    /\ pc = "first"
    /\ IF image_files = <<>>
       THEN /\ error' = "IndexError"
            /\ pc' = Caller
            /\ UNCHANGED ref
       ELSE IF ~image_files[1].readable
       THEN /\ error' = "ValueError"
            /\ pc' = Caller
            /\ UNCHANGED ref
       ELSE /\ ref' = image_files[1].shape
            /\ pc' = "open"
            /\ UNCHANGED error
    /\ UNCHANGED <<fsVars, artifact, entry, output_format, image_files, years, fps,
                   writer, i, writes, pending, result, http>>

\* video_writer = cv2.VideoWriter(output_path, fourcc, fps, (width, height)):
\* the container is opened and the file truncated, or the writer is returned
\* unopened; isOpened() is not consulted
OpenWriter ==
    /\ pc = "open"
    /\ \E ok \in BOOLEAN :
        /\ writer' = [created |-> TRUE, opened |-> ok, released |-> 0]
        /\ artifact' = IF ok THEN "open" ELSE artifact
    /\ i' = 1
    /\ pc' = "loop"
    /\ UNCHANGED <<fsVars, entry, output_format, image_files, years, fps, ref, writes,
                   pending, error, result, http>>

\* the frame handed to write(): resized to the reference dimensions, the
\* year burnt in
Composited(k) == [src |-> k, year |-> years[k], shape |-> ref]

\* one iteration of the frame loop: an undecodable image is skipped; else
\* the frame is resized, overlaid and written frame_duration times; a cv2
\* error may be raised after n of these writes, n < frame_duration (n = 0:
\* in resize, in the overlay or in the first write)
LoopFrame ==
    /\ pc = "loop"
    /\ i <= Len(image_files)
    /\ IF ~image_files[i].readable
       THEN /\ i' = i + 1
            /\ UNCHANGED <<writes, pending, pc>>
       ELSE \E n \in 0..frame_duration(fps) :
            /\ writes' = writes \o Repeat(Composited(i), n)
            /\ IF n < frame_duration(fps)
               THEN /\ pending' = "cv2.error"
                    /\ pc' = "finally"
                    /\ UNCHANGED i
               ELSE /\ i' = i + 1
                    /\ UNCHANGED <<pending, pc>>
    /\ UNCHANGED <<fsVars, artifact, entry, output_format, image_files, years, fps, ref,
                   writer, error, result, http>>

\* the for loop is exhausted
LoopExit ==
    /\ pc = "loop"
    /\ i > Len(image_files)
    /\ pc' = "finally"
    /\ UNCHANGED <<fsVars, artifact, entry, output_format, image_files, years, fps, ref,
                   writer, i, writes, pending, error, result, http>>

\* a release on the normal path only
FinallyOnSuccessOnly ==
    /\ pc = "finally"
    /\ writer' = IF pending = "none" THEN [writer EXCEPT !.released = @ + 1] ELSE writer
    /\ artifact' = IF writer.opened /\ pending = "none" THEN "finalized" ELSE artifact
    /\ pc' = "return"
    /\ UNCHANGED <<fsVars, entry, output_format, image_files, years, fps, ref, i, writes,
                   pending, error, result, http>>

\* finally: video_writer.release()
Finally ==
    /\ pc = "finally"
    /\ writer' = [writer EXCEPT !.released = @ + 1]
    /\ artifact' = IF writer.opened THEN "finalized" ELSE artifact
    /\ pc' = "return"
    /\ UNCHANGED <<fsVars, entry, output_format, image_files, years, fps, ref, i, writes,
                   pending, error, result, http>>

\* after the finally block: the exception in flight propagates, or
\* str(output_path) is returned
Return ==
    /\ pc = "return"
    /\ IF pending # "none"
       THEN /\ error' = pending
            /\ UNCHANGED result
       ELSE /\ result' = "output_path"
            /\ UNCHANGED error
    /\ pc' = Caller
    /\ UNCHANGED <<fsVars, artifact, entry, output_format, image_files, years, fps, ref,
                   writer, i, writes, pending, http>>

\* app.create_timelapse after the call: the JSON response and its status
Respond ==
    /\ pc = "respond"
    /\ http' = IF error = "FileNotFoundError" THEN 404
               ELSE IF error # "none" THEN 500
               ELSE 200
    /\ pc' = "done"
    /\ UNCHANGED <<fsVars, artifact, entry, output_format, image_files, years, fps, ref,
                   writer, i, writes, pending, error, result>>

\* the request is over; the next one finds the directory as it was left
NextRequest ==
    /\ pc = "done"
    /\ pc' = "idle"
    /\ entry' = "none"
    /\ output_format' = "none"
    /\ image_files' = <<>>
    /\ years' = <<>>
    /\ fps' = 1
    /\ ref' = 0
    /\ writer' = NoWriter
    /\ i' = 1
    /\ writes' = <<>>
    /\ pending' = "none"
    /\ error' = "none"
    /\ result' = "none"
    /\ http' = 0
    /\ UNCHANGED <<fsVars, artifact>>

Next ==
    \/ WebCreateTimelapse
    \/ CallCreateTimelapseVideo
    \/ CallCreateMp4Timelapse
    \/ Resolve
    \/ SortAndCall
    \/ ReadFirst
    \/ OpenWriter
    \/ LoopFrame
    \/ LoopExit
    \/ Finally
    \/ Return
    \/ Respond
    \/ NextRequest

Spec == Init /\ [][Next]_vars

\* ------------------------------------------------------------ properties
Finished == pc \in {"respond", "done"}

\* create_timelapse_video has called create_mp4_timelapse, which has not
\* yet come back
Handed == entry \in {"web", "video"} /\ pc \in {"first", "open", "loop", "finally", "return"}

Pos(s, x) == CHOOSE k \in 1..Len(s) : s[k] = x

Range(s) == {s[k] : k \in 1..Len(s)}

Parsable(f) == IsIntLiteral(Last(f.stem))

Readable == {k \in 1..Len(image_files) : image_files[k].readable}

\* the number of write calls that carried image k
Count(k) == Cardinality({w \in 1..Len(writes) : writes[w].src = k})

\* the frames this invocation put into the container: write() on an
\* unopened writer stores nothing
ContainerFrames == IF writer.opened THEN writes ELSE <<>>

\* C1: once the VideoWriter exists it is released exactly once on every exit
\* path, never before the loop is left, and before the path is returned or
\* the error reaches the caller
C1_ReleasedExactlyOnce ==
    /\ writer.released <= 1
    /\ (writer.released = 1 => pc \in {"return", "respond", "done"})
    /\ (writer.created /\ (error # "none" \/ result # "none") => writer.released = 1)
    /\ (writer.opened /\ writer.released = 1 => artifact = "finalized")

C1_Witness ==
    /\ pc = "done"
    /\ error = "cv2.error"
    /\ writer.opened
    /\ writer.released = 1
    /\ writes # <<>>
    /\ \E k \in 1..Len(image_files) : ~image_files[k].readable

\* C2: the sequence handed to the encoder is a permutation of the discovered
\* png files, ascending by the year of the last field, equal years in
\* discovery order
C2_SortedStable ==
    Handed =>
        /\ Len(image_files) = Len(GlobPng)
        /\ Range(image_files) = Range(GlobPng)
        /\ \A p, q \in 1..Len(image_files) :
            p < q =>
                /\ extract_year(image_files[p]) <= extract_year(image_files[q])
                /\ (extract_year(image_files[p]) = extract_year(image_files[q])
                        => Pos(GlobPng, image_files[p]) < Pos(GlobPng, image_files[q]))

C2_Witness ==
    /\ Handed
    /\ Len(image_files) = 3
    /\ image_files # GlobPng
    /\ \E p, q \in 1..Len(image_files) :
        p < q /\ extract_year(image_files[p]) = extract_year(image_files[q])

\* C3 as stated: an unparsable year gets key 0, is kept, and sorts before
\* every image whose year field parses as an integer
C3_UnparsableBeforeAllParsable ==
    Handed =>
        \A p \in 1..Len(image_files) :
            ~Parsable(image_files[p]) =>
                /\ years[p] = 0
                /\ \A q \in 1..Len(image_files) : Parsable(image_files[q]) => p < q

\* C3 amended: an unparsable year gets key 0, is kept, and sorts before every
\* image whose year field parses as a positive integer
C3_UnparsableBeforePositive ==
    Handed =>
        /\ \A f \in Range(GlobPng) : ~Parsable(f) => f \in Range(image_files)
        /\ \A p \in 1..Len(image_files) :
            ~Parsable(image_files[p]) =>
                /\ years[p] = 0
                /\ \A q \in 1..Len(image_files) :
                    (Parsable(image_files[q]) /\ IntValue(Last(image_files[q].stem)) > 0)
                        => p < q

C3_Witness ==
    /\ Handed
    /\ \E p, q \in 1..Len(image_files) :
        /\ ~Parsable(image_files[p])
        /\ Parsable(image_files[q])
        /\ IntValue(Last(image_files[q].stem)) > 0
        /\ Pos(GlobPng, image_files[q]) < Pos(GlobPng, image_files[p])

\* C4 as stated: when at least one image decodes and no cv2 error is raised
\* while a frame is processed, the job succeeds and every decodable image is
\* written, wherever the undecodable ones stand
C4_DecodeFailureNotFatal ==
    (Finished /\ output_format = "mp4" /\ Readable # {} /\ error # "cv2.error") =>
        /\ error = "none"
        /\ result = "output_path"
        /\ \A k \in Readable : Count(k) >= 1

\* C5 as stated: a returned path implies that the container was opened and
\* finalized
C5_ReturnImpliesOpened ==
    result = "output_path" => (writer.opened /\ writer.released = 1)

\* C6 as stated: no ingested file name starts with timelapse_
C6_NoTimelapsePrefixIngested ==
    \A k \in 1..Len(image_files) : ~StartsWithTimelapse(image_files[k])

\* C7 as stated: at 1 fps the container receives exactly 2 * N frames, N the
\* number of images that decode
C7_TwoFramesPerDecodedImage ==
    (Finished /\ output_format = "mp4" /\ image_files # <<>> /\ fps = 1 /\ error # "cv2.error") =>
        Len(ContainerFrames) = 2 * Cardinality(Readable)

C9_AllUndecodable ==
    (image_files # <<>> /\ Readable = {}) =>
        /\ pc \in {"sort", "first", "respond", "done"}
        /\ ~writer.created
        /\ artifact = "absent"
        /\ result = "none"
        /\ (Finished => error = "ValueError")
        /\ (entry = "web" /\ pc = "done" => http = 500)

C9_Witness ==
    /\ pc = "done"
    /\ Len(image_files) >= 2
    /\ Readable = {}
    /\ error = "ValueError"

\* C10 as stated: every decoded frame whose iteration completed was written
\* max(1, 2 * fps) times
C10_HoldTwoSeconds ==
    \A k \in 1..(i - 1) :
        k \in Readable => Count(k) = Max(1, 2 * fps)

\* C10 amended: every decoded frame whose iteration completed was written 2
\* times at 1 fps and max(1, fps div 2) times at fps >= 2 (half a second);
\* a skipped image was never written
C10_HoldPerFrameRate ==
    \A k \in 1..(i - 1) :
        /\ (k \in Readable /\ fps = 1 => Count(k) = 2)
        /\ (k \in Readable /\ fps \in {2, 3} => Count(k) = 1)
        /\ (k \in Readable /\ fps >= 2 => 2 * Count(k) <= fps /\ fps < 2 * Count(k) + 2)
        /\ (k \notin Readable => Count(k) = 0)

C10_Witness ==
    /\ pc = "done"
    /\ fps = 4
    /\ result = "output_path"
    /\ Cardinality(Readable) >= 2
    /\ Cardinality(Readable) < Len(image_files)

====
